---- MODULE Spec2Model ----
(***************************************************************************)
(* Model of the operator tree engine of simple_data_analysis               *)
(* (src/processor.py) together with the tree construction of               *)
(* src/__main__.py.                                                        *)
(*                                                                         *)
(* Python objects live in a heap (a sequence of objects, an object's       *)
(* identity is its index), so that sharing between a Grouper's template    *)
(* and its per-key clones is something the model can express: deepcopy     *)
(* allocates new objects, it is not the identity on references.            *)
(***************************************************************************)
EXTENDS Integers, Sequences, FiniteSets, TLC

VARIABLES
    config,      \* the configuration main loaded from the JSON file
    source,      \* the data source: the sheet's header row and the column mapping
    heap,        \* the Python objects: heap[id] is the operator with identity id
    operators,   \* Processor.operators: the list of root operators (ids)
    seen,        \* the rows the data_iterator has handed out so far, in order
    pc,          \* "running" | "done" (iterator exhausted) | "raised" (start() raised)
    exc,         \* the exception that left Processor.start, or "none"
    log,         \* the run() calls made for the last row, in call order
    out          \* the last output() call and what it returned or raised

vars == <<config, source, heap, operators, seen, pc, exc, log, out>>

(***************************************************************************)
(* Bounds of the model.                                                    *)
(***************************************************************************)
MaxRecords == 2   \* rows the data source hands out
E2ELen == 3       \* rows of the end-to-end scenario

(***************************************************************************)
(* Python values of a row: int, str, bool.  A bool carries 1 or 0, as      *)
(* Python's bool is a subclass of int.                                     *)
(***************************************************************************)
PyInt(n) == [t |-> "int", v |-> n]
PyStr(s) == [t |-> "str", v |-> s]
PyBool(b) == [t |-> "bool", v |-> IF b THEN 1 ELSE 0]

IsNumeric(x) == x.t \in {"int", "bool"}

\* a == b in Python: numbers (bool included) compare by value, True == 1
PyEq(a, b) ==
    IF IsNumeric(a) /\ IsNumeric(b) THEN a.v = b.v ELSE a = b

\* total + x in Python, total an int: TypeError unless x is a number
PyAdd(total, x) ==
    IF IsNumeric(x) THEN [exc |-> "none", val |-> total + x.v]
    ELSE [exc |-> "TypeError", val |-> total]

Fields == {"category", "amount"}
CategoryVals == {PyStr("food"), PyStr("rent"), PyInt(1), PyBool(TRUE)}
AmountVals == {PyInt(5), PyStr("x"), PyBool(TRUE)}
FieldVals(f) == IF f = "category" THEN CategoryVals ELSE AmountVals

\* the rows the data source can produce: a dict from column name to value,
\* a column may be missing from the row
Records ==
    UNION { { d \in [D -> CategoryVals \cup AmountVals] :
                \A f \in D : d[f] \in FieldVals(f) } : D \in SUBSET Fields }

\* the rows of the end-to-end scenario
E2ERecords ==
    { [category |-> PyStr("food"), amount |-> PyInt(20)],
      [category |-> PyStr("rent"), amount |-> PyInt(500)],
      [category |-> PyStr("food"), amount |-> PyInt(5)] }

NoKey == [t |-> "nokey", v |-> 0]
None == "none"

(***************************************************************************)
(* The operator classes: __init__ and add_operator.                        *)
(***************************************************************************)
Kinds == {"Matcher", "Filter", "Grouper", "Summer"}

Matcher(name, matches) ==
    [kind |-> "Matcher", name |-> name, matches |-> matches, operators |-> <<>>]

Filter(name, matches) ==
    [kind |-> "Filter", name |-> name, matches |-> matches, operators |-> <<>>]

Grouper(name, group_by) ==
    [kind |-> "Grouper", name |-> name, group_by |-> group_by,
     operators |-> <<>>, groups |-> <<>>]

Summer(name, var_name) ==
    [kind |-> "Summer", name |-> name, var_name |-> var_name, total |-> 0]

\* klass(name, operator["args"])
New(type, name, args) ==
    CASE type = "Matcher" -> Matcher(name, args)
      [] type = "Filter" -> Filter(name, args)
      [] type = "Grouper" -> Grouper(name, args)
      [] type = "Summer" -> Summer(name, args)

\* self.operators.append(operator); Summer has no add_operator method
AddOperator(h, id, child) ==
    IF h[id].kind = "Summer"
    THEN [heap |-> h, exc |-> "AttributeError"]
    ELSE [heap |-> [h EXCEPT ![id].operators = Append(@, child)], exc |-> None]

(***************************************************************************)
(* __main__.parse_operator: build the operator named name from its         *)
(* description, then its children, adding each to the instance.            *)
(***************************************************************************)
RECURSIVE ParseOperator(_, _, _), ParseChildren(_, _, _, _)

ParseOperator(h, name, operator) ==
    IF "type" \notin DOMAIN operator \/ "args" \notin DOMAIN operator
    THEN [heap |-> h, id |-> 0, exc |-> "KeyError"]
    ELSE IF operator.type \notin Kinds
    THEN [heap |-> h, id |-> 0, exc |-> "AttributeError"]
    ELSE LET instance == Len(h) + 1
             h1 == Append(h, New(operator.type, name, operator.args))
         IN  IF "operators" \in DOMAIN operator
             THEN ParseChildren(h1, instance, operator.operators, 1)
             ELSE [heap |-> h1, id |-> instance, exc |-> None]

ParseChildren(h, instance, items, i) ==
    IF i > Len(items)
    THEN [heap |-> h, id |-> instance, exc |-> None]
    ELSE LET c == ParseOperator(h, items[i][1], items[i][2])
         IN  IF c.exc # None THEN c
             ELSE LET a == AddOperator(c.heap, instance, c.id)
                  IN  IF a.exc # None
                      THEN [heap |-> a.heap, id |-> instance, exc |-> a.exc]
                      ELSE ParseChildren(a.heap, instance, items, i + 1)

\* main: for name, operator in config["operators"].items():
\*           proc.add_operator(parse_operator(name, operator))
RECURSIVE BuildFrom(_, _, _, _)
BuildFrom(h, roots, items, i) ==
    IF i > Len(items)
    THEN [heap |-> h, operators |-> roots, exc |-> None]
    ELSE LET c == ParseOperator(h, items[i][1], items[i][2])
         IN  IF c.exc # None
             THEN [heap |-> c.heap, operators |-> roots, exc |-> c.exc]
             ELSE BuildFrom(c.heap, Append(roots, c.id), items, i + 1)

Build(items) == BuildFrom(<<>>, <<>>, items, 1)

(***************************************************************************)
(* copy.deepcopy of a list of operators: every object reachable from the   *)
(* list is allocated anew, with the state it has at the time of the copy   *)
(* (a Grouper's groups dict is copied too, not reset).                     *)
(***************************************************************************)
RECURSIVE CopyObject(_, _), CopyList(_, _, _, _), CopyGroups(_, _, _, _)

\* a copy of the object alone: its children and clones stay those of the original
CopyObjectShallow(h, id) ==
    [heap |-> Append(h, h[id]), id |-> Len(h) + 1]

CopyObject(h, id) ==
    LET new == Len(h) + 1
        h1 == Append(h, h[id])
    IN  CASE h[id].kind = "Summer" -> [heap |-> h1, id |-> new]
          [] h[id].kind \in {"Matcher", "Filter"} ->
                LET c == CopyList(h1, h[id].operators, 1, <<>>)
                IN  [heap |-> [c.heap EXCEPT ![new].operators = c.ids], id |-> new]
          [] h[id].kind = "Grouper" ->
                LET c == CopyList(h1, h[id].operators, 1, <<>>)
                    g == CopyGroups(c.heap, h[id].groups, DOMAIN h[id].groups, <<>>)
                IN  [heap |-> [g.heap EXCEPT ![new].operators = c.ids,
                                             ![new].groups = g.groups],
                     id |-> new]

CopyList(h, ids, i, acc) ==
    IF i > Len(ids) THEN [heap |-> h, ids |-> acc]
    ELSE LET c == CopyObject(h, ids[i])
         IN  CopyList(c.heap, ids, i + 1, Append(acc, c.id))

CopyGroups(h, groups, keys, acc) ==
    IF keys = {} THEN [heap |-> h, groups |-> acc]
    ELSE LET k == CHOOSE x \in keys : TRUE
             c == CopyList(h, groups[k], 1, <<>>)
         IN  CopyGroups(c.heap, groups, keys \ {k}, acc @@ (k :> c.ids))

DeepCopy(h, ids) == CopyList(h, ids, 1, <<>>)

(***************************************************************************)
(* The tree below an object, as a value: what an observer walking the      *)
(* references from heap[id] sees.                                          *)
(***************************************************************************)
RECURSIVE View(_, _)
ViewList(h, ids) == [i \in 1..Len(ids) |-> View(h, ids[i])]
View(h, id) ==
    CASE h[id].kind = "Summer" -> h[id]
      [] h[id].kind \in {"Matcher", "Filter"} ->
            [h[id] EXCEPT !.operators = ViewList(h, h[id].operators)]
      [] h[id].kind = "Grouper" ->
            [h[id] EXCEPT !.operators = ViewList(h, h[id].operators),
                          !.groups = [k \in DOMAIN h[id].groups |->
                                        ViewList(h, h[id].groups[k])]]

(***************************************************************************)
(* run(data).  A call returns the heap it leaves, the exception that       *)
(* leaves it ("none" when it returns) and the calls made, in call order:   *)
(* its own entry first, then those of the calls below it.                  *)
(*   path   where the callee sits: one step per level, the index in the    *)
(*          parent's list and, below a Grouper, the key of the group       *)
(*   origin TRUE when the exception was raised by this call's own code     *)
(***************************************************************************)
Step(key, idx) == [key |-> key, idx |-> idx]

Entry(h, h2, id, data, path, e, origin) ==
    [path |-> path, id |-> id, data |-> data, before |-> View(h, id),
     after |-> View(h2, id), exc |-> e, origin |-> origin]

Result(h, h2, id, data, path, e, origin, sublog) ==
    [heap |-> h2, exc |-> e,
     log |-> <<Entry(h, h2, id, data, path, e, origin)>> \o sublog]

RECURSIVE Run(_, _, _, _), RunAll(_, _, _, _, _, _), MatchFrom(_, _, _)

\* a loop that leaves after its first operator
RunAllFirstOnly(h, ids, i, data, path, key) ==
    IF i > Len(ids) \/ i > 1 THEN [heap |-> h, exc |-> None, log |-> <<>>]
    ELSE Run(h, ids[i], data, Append(path, Step(key, i)))

\* for operator in <list>: operator.run(data)
RunAll(h, ids, i, data, path, key) ==
    IF i > Len(ids) THEN [heap |-> h, exc |-> None, log |-> <<>>]
    ELSE LET r == Run(h, ids[i], data, Append(path, Step(key, i)))
         IN  IF r.exc # None THEN r
             ELSE LET rest == RunAll(r.heap, ids, i + 1, data, path, key)
                  IN  [heap |-> rest.heap, exc |-> rest.exc,
                       log |-> r.log \o rest.log]

\* for label, value in self.matches: if data[label] != value: match = False; break
MatchFrom(matches, i, data) ==
    IF i > Len(matches) THEN "match"
    ELSE IF Len(matches[i]) # 2 THEN "ValueError"  \* label, value = <not a pair>
    ELSE IF matches[i][1] \notin DOMAIN data THEN "KeyError"
    ELSE IF ~PyEq(data[matches[i][1]], matches[i][2]) THEN "nomatch"
    ELSE MatchFrom(matches, i + 1, data)

\* Matcher.run with the break taken after the first condition, met or not
MatcherRunFirstOnly(h, id, data, path) ==
    LET first == IF h[id].matches = <<>> THEN <<>> ELSE <<h[id].matches[1]>>
        match == MatchFrom(first, 1, data)
    IN  IF match \in {"KeyError", "ValueError"}
        THEN Result(h, h, id, data, path, match, TRUE, <<>>)
        ELSE IF match = "nomatch"
        THEN Result(h, h, id, data, path, None, FALSE, <<>>)
        ELSE LET r == RunAll(h, h[id].operators, 1, data, path, NoKey)
             IN  Result(h, r.heap, id, data, path, r.exc, FALSE, r.log)

\* Matcher.run
MatcherRun(h, id, data, path) ==
    LET match == MatchFrom(h[id].matches, 1, data)
    IN  IF match \in {"KeyError", "ValueError"}
        THEN Result(h, h, id, data, path, match, TRUE, <<>>)
        ELSE IF match = "nomatch"
        THEN Result(h, h, id, data, path, None, FALSE, <<>>)
        ELSE LET r == RunAll(h, h[id].operators, 1, data, path, NoKey)
             IN  Result(h, r.heap, id, data, path, r.exc, FALSE, r.log)

\* Filter.run
FilterRun(h, id, data, path) ==
    LET match == MatchFrom(h[id].matches, 1, data)
    IN  IF match \in {"KeyError", "ValueError"}
        THEN Result(h, h, id, data, path, match, TRUE, <<>>)
        ELSE IF match = "match"
        THEN Result(h, h, id, data, path, None, FALSE, <<>>)
        ELSE LET r == RunAll(h, h[id].operators, 1, data, path, NoKey)
             IN  Result(h, r.heap, id, data, path, r.exc, FALSE, r.log)

\* data[self.group_by] in self.groups: dict lookup, by hash and ==
HasKey(groups, key) == \E k \in DOMAIN groups : PyEq(k, key)
KeyOf(groups, key) == CHOOSE k \in DOMAIN groups : PyEq(k, key)

\* Grouper.run without the deepcopy: the new group is the template list itself
GrouperRunShared(h, id, data, path) ==
    IF h[id].group_by \notin DOMAIN data
    THEN Result(h, h, id, data, path, "KeyError", TRUE, <<>>)
    ELSE LET key == data[h[id].group_by]
             h1 == IF HasKey(h[id].groups, key) THEN h
                   ELSE [h EXCEPT ![id].groups = @ @@ (key :> h[id].operators)]
             k == KeyOf(h1[id].groups, key)
             r == RunAll(h1, h1[id].groups[k], 1, data, path, k)
         IN  Result(h, r.heap, id, data, path, r.exc, FALSE, r.log)

\* Grouper.run without the membership test: every row gets a fresh clone
GrouperRunAlwaysClone(h, id, data, path) ==
    IF h[id].group_by \notin DOMAIN data
    THEN Result(h, h, id, data, path, "KeyError", TRUE, <<>>)
    ELSE LET key == data[h[id].group_by]
             c == DeepCopy(h, h[id].operators)
             k == IF HasKey(h[id].groups, key) THEN KeyOf(h[id].groups, key) ELSE key
             h1 == [c.heap EXCEPT ![id].groups =
                       [x \in DOMAIN @ \cup {k} |-> IF x = k THEN c.ids ELSE @[x]]]
             r == RunAll(h1, h1[id].groups[k], 1, data, path, k)
         IN  Result(h, r.heap, id, data, path, r.exc, FALSE, r.log)

\* Grouper.run that skips a row without the group field
GrouperRunSkip(h, id, data, path) ==
    IF h[id].group_by \notin DOMAIN data
    THEN Result(h, h, id, data, path, None, FALSE, <<>>)
    ELSE LET key == data[h[id].group_by]
             c == DeepCopy(h, h[id].operators)
             h1 == IF HasKey(h[id].groups, key) THEN h
                   ELSE [c.heap EXCEPT ![id].groups = @ @@ (key :> c.ids)]
             k == KeyOf(h1[id].groups, key)
             r == RunAll(h1, h1[id].groups[k], 1, data, path, k)
         IN  Result(h, r.heap, id, data, path, r.exc, FALSE, r.log)

\* Grouper.run that hands the row to the template children as well
GrouperRunTemplate(h, id, data, path) ==
    IF h[id].group_by \notin DOMAIN data
    THEN Result(h, h, id, data, path, "KeyError", TRUE, <<>>)
    ELSE LET key == data[h[id].group_by]
             c == DeepCopy(h, h[id].operators)
             h1 == IF HasKey(h[id].groups, key) THEN h
                   ELSE [c.heap EXCEPT ![id].groups = @ @@ (key :> c.ids)]
             k == KeyOf(h1[id].groups, key)
             r == RunAll(h1, h1[id].groups[k], 1, data, path, k)
             t == RunAll(r.heap, h[id].operators, 1, data, path, k)
         IN  Result(h, t.heap, id, data, path, r.exc, FALSE, r.log)

\* Grouper.run that also appends the new clone to its child list
GrouperRunAdopt(h, id, data, path) ==
    IF h[id].group_by \notin DOMAIN data
    THEN Result(h, h, id, data, path, "KeyError", TRUE, <<>>)
    ELSE LET key == data[h[id].group_by]
             c == DeepCopy(h, h[id].operators)
             h1 == IF HasKey(h[id].groups, key) THEN h
                   ELSE [c.heap EXCEPT ![id].groups = @ @@ (key :> c.ids),
                                       ![id].operators = @ \o c.ids]
             k == KeyOf(h1[id].groups, key)
             r == RunAll(h1, h1[id].groups[k], 1, data, path, k)
         IN  Result(h, r.heap, id, data, path, r.exc, FALSE, r.log)

\* Grouper.run
GrouperRun(h, id, data, path) ==
    IF h[id].group_by \notin DOMAIN data
    THEN Result(h, h, id, data, path, "KeyError", TRUE, <<>>)
    ELSE LET key == data[h[id].group_by]
             c == DeepCopy(h, h[id].operators)
             h1 == IF HasKey(h[id].groups, key) THEN h
                   ELSE [c.heap EXCEPT ![id].groups = @ @@ (key :> c.ids)]
             k == KeyOf(h1[id].groups, key)
             r == RunAll(h1, h1[id].groups[k], 1, data, path, k)
         IN  Result(h, r.heap, id, data, path, r.exc, FALSE, r.log)

\* Summer.run with "=" for "+="
SummerRunAssign(h, id, data, path) ==
    IF h[id].var_name \notin DOMAIN data
    THEN Result(h, h, id, data, path, "KeyError", TRUE, <<>>)
    ELSE LET s == PyAdd(0, data[h[id].var_name])
             h1 == IF s.exc = "TypeError" THEN h
                   ELSE [h EXCEPT ![id].total = s.val]
         IN  Result(h, h1, id, data, path, None, FALSE, <<>>)

\* Summer.run: only TypeError is caught
SummerRun(h, id, data, path) ==
    IF h[id].var_name \notin DOMAIN data
    THEN Result(h, h, id, data, path, "KeyError", TRUE, <<>>)
    ELSE LET s == PyAdd(h[id].total, data[h[id].var_name])
             h1 == IF s.exc = "TypeError" THEN h
                   ELSE [h EXCEPT ![id].total = s.val]
         IN  Result(h, h1, id, data, path, None, FALSE, <<>>)

Run(h, id, data, path) ==
    CASE h[id].kind = "Matcher" -> MatcherRun(h, id, data, path)
      [] h[id].kind = "Filter" -> FilterRun(h, id, data, path)
      [] h[id].kind = "Grouper" -> GrouperRun(h, id, data, path)
      [] h[id].kind = "Summer" -> SummerRun(h, id, data, path)

(***************************************************************************)
(* output().  A call returns [exc, val, heap]: val is the Python value     *)
(* returned (a tuple (name, result) as <<name, result>>, a dict as a       *)
(* function), exc the exception raised instead, heap the objects as the    *)
(* call leaves them.                                                       *)
(***************************************************************************)
Returns(h, val) == [exc |-> None, val |-> val, heap |-> h]
Raises(h, e) == [exc |-> e, val |-> <<>>, heap |-> h]
EmptyDict == <<>>

\* Summer.output
\* a read-out that hands the total over and starts again from 0
SummerOutputReset(h, id) ==
    Returns([h EXCEPT ![id].total = 0], <<h[id].name, h[id].total>>)

SummerOutput(h, id) == Returns(h, <<h[id].name, h[id].total>>)

\* Matcher.output: "for name, operator in self.operators" unpacks each element
\* of the list, an Operator object, into two names: with a child in the list
\* the first iteration raises TypeError before the loop body runs
MatcherOutput(h, id) ==
    IF h[id].operators = <<>> THEN Returns(h, <<h[id].name, EmptyDict>>)
    ELSE Raises(h, "TypeError")

\* Filter.output: the same code as Matcher.output
FilterOutput(h, id) ==
    IF h[id].operators = <<>> THEN Returns(h, <<h[id].name, EmptyDict>>)
    ELSE Raises(h, "TypeError")

\* Grouper.output: "for item_name, item in group" unpacks the operators of the
\* group in the same way
GrouperOutput(h, id) ==
    IF \E k \in DOMAIN h[id].groups : h[id].groups[k] # <<>>
    THEN Raises(h, "TypeError")
    ELSE Returns(h, <<h[id].name, [k \in DOMAIN h[id].groups |-> EmptyDict]>>)

Output(h, id) ==
    CASE h[id].kind = "Matcher" -> MatcherOutput(h, id)
      [] h[id].kind = "Filter" -> FilterOutput(h, id)
      [] h[id].kind = "Grouper" -> GrouperOutput(h, id)
      [] h[id].kind = "Summer" -> SummerOutput(h, id)

\* Processor.output: name, result = operator.output(); output[name] = result
RECURSIVE ProcessorOutputFrom(_, _, _, _)
ProcessorOutputFrom(h, roots, i, output) ==
    IF i > Len(roots) THEN Returns(h, output)
    ELSE LET r == Output(h, roots[i])
         IN  IF r.exc # None THEN Raises(r.heap, r.exc)
             ELSE ProcessorOutputFrom(r.heap, roots, i + 1,
                      (r.val[1] :> r.val[2]) @@ output)

ProcessorOutput(h, roots) == ProcessorOutputFrom(h, roots, 1, EmptyDict)

(***************************************************************************)
(* The configurations: config["operators"] of the JSON file, a list of     *)
(* (name, description) in file order.                                      *)
(***************************************************************************)
Leaf(type, args) == [type |-> type, args |-> args]
Node(type, args, children) == [type |-> type, args |-> args, operators |-> children]

TotalCfg == <<"total", Leaf("Summer", "amount")>>
OtherCfg == <<"other", Leaf("Summer", "amount")>>
GroupCfg == <<"group", Node("Grouper", "category", <<TotalCfg>>)>>
RootCfg == <<"root", Node("Matcher", <<>>, <<GroupCfg>>)>>
FoodCfg ==
    <<"food", Node("Matcher", <<<<"category", PyStr("food")>>>>, <<TotalCfg>>)>>
BothCfg ==
    <<"both", Node("Matcher", <<<<"category", PyInt(1)>>, <<"amount", PyInt(5)>>>>,
               <<TotalCfg, <<"bare", Leaf("Matcher", <<>>)>>>>)>>
AllCfg == <<"all", Node("Matcher", <<>>, <<GroupCfg, TotalCfg>>)>>
NotFoodCfg ==
    <<"notfood", Node("Filter", <<<<"category", PyStr("food")>>>>,
                  <<TotalCfg, GroupCfg>>)>>
NeverCfg == <<"never", Node("Filter", <<>>, <<TotalCfg>>)>>
InnerCfg == <<"inner", Node("Grouper", "amount", <<TotalCfg>>)>>
NestedCfg == <<"nested", Node("Grouper", "category", <<InnerCfg, TotalCfg>>)>>

Configs ==
    { <<TotalCfg>>, <<GroupCfg>>, <<RootCfg>>, <<FoodCfg>>, <<BothCfg>>,
      <<AllCfg>>, <<NotFoodCfg>>, <<NeverCfg>>, <<NestedCfg>>,
      <<RootCfg, TotalCfg>>, <<NotFoodCfg, FoodCfg>>,
      <<TotalCfg, GroupCfg, OtherCfg>> }

(***************************************************************************)
(* The program: main builds the tree, Processor.start runs the rows        *)
(* through it, output() reads the results.                                 *)
(***************************************************************************)
NoCall == [call |-> "none", id |-> 0, exc |-> None, val |-> <<>>]

\* the file main reads: config_version, header_row and the operators
ConfigFile(version, items) ==
    [config_version |-> version, header_row |-> 1, operators |-> items]

\* Processor(data_iterator) over an iterator that is not a spreadsheet
AnyIterator == [header |-> <<>>, mapping |-> <<>>]

InitWith(items) ==
    LET b == Build(items)
    IN  /\ config = ConfigFile(1, items)
        /\ source = AnyIterator
        /\ heap = b.heap
        /\ operators = b.operators
        /\ seen = <<>>
        /\ pc = "running"
        /\ exc = None
        /\ log = <<>>
        /\ out = NoCall

Init == \E items \in Configs : InitWith(items)

\* Processor.start, one row: for operator in self.operators: operator.run(data)
\* a pass that puts every operator back as it was before a row that raised
StartRowRollback(data, max) ==
    /\ pc = "running"
    /\ Len(seen) < max
    /\ LET r == RunAll(heap, operators, 1, data, <<>>, NoKey)
       IN  /\ heap' = IF r.exc = None THEN r.heap ELSE heap
           /\ log' = r.log
           /\ exc' = r.exc
           /\ pc' = IF r.exc = None THEN "running" ELSE "raised"
    /\ seen' = Append(seen, data)
    /\ UNCHANGED <<config, source, operators, out>>

StartRowUpTo(data, max) ==
    /\ pc = "running"
    /\ Len(seen) < max
    /\ LET r == RunAll(heap, operators, 1, data, <<>>, NoKey)
       IN  /\ heap' = r.heap
           /\ log' = r.log
           /\ exc' = r.exc
           /\ pc' = IF r.exc = None THEN "running" ELSE "raised"
    /\ seen' = Append(seen, data)
    /\ UNCHANGED <<config, source, operators, out>>

StartRow(data) == StartRowUpTo(data, MaxRecords)

\* Processor.start: the data_iterator is exhausted, start() returns
StartReturn ==
    /\ pc = "running"
    /\ pc' = "done"
    /\ UNCHANGED <<config, source, heap, operators, seen, exc, log, out>>

\* Processor.output(), called once start() has returned or raised
CallProcessorOutput ==
    /\ pc \in {"done", "raised"}
    /\ LET r == ProcessorOutput(heap, operators)
       IN  /\ out' = [call |-> "Processor.output", id |-> 0,
                       exc |-> r.exc, val |-> r.val]
           /\ heap' = r.heap
    /\ UNCHANGED <<config, source, operators, seen, pc, exc, log>>

\* output() of one operator, called once start() has returned or raised
CallOutput(id) ==
    /\ pc \in {"done", "raised"}
    /\ LET r == Output(heap, id)
       IN  /\ out' = [call |-> "output", id |-> id, exc |-> r.exc, val |-> r.val]
           /\ heap' = r.heap
    /\ UNCHANGED <<config, source, operators, seen, pc, exc, log>>

Next ==
    \/ \E data \in Records : StartRow(data)
    \/ StartReturn
    \/ CallProcessorOutput
    \/ \E id \in 1..Len(heap) : CallOutput(id)

Spec == Init /\ [][Next]_vars

\* the end-to-end scenario: the tree root -> group -> total over the three rows
\* of the scenario, in any order and with repetition
InitE2E == InitWith(<<RootCfg>>)

StartRowE2E(data) == StartRowUpTo(data, E2ELen)

NextE2E ==
    \/ \E data \in E2ERecords : StartRowE2E(data)
    \/ StartReturn
    \/ CallProcessorOutput
    \/ \E id \in 1..Len(heap) : CallOutput(id)

SpecE2E == InitE2E /\ [][NextE2E]_vars

(***************************************************************************)
(* Vocabulary of the properties.                                           *)
(***************************************************************************)
Entries == {log[i] : i \in 1..Len(log)}

\* the calls a call made on the operators of its own list, in call order
RECURSIVE IndicesFrom(_, _)
IndicesFrom(e, i) ==
    IF i > Len(log) THEN <<>>
    ELSE IF /\ Len(log[i].path) = Len(e.path) + 1
            /\ SubSeq(log[i].path, 1, Len(e.path)) = e.path
         THEN <<i>> \o IndicesFrom(e, i + 1)
         ELSE IndicesFrom(e, i + 1)
ChildCalls(e) == LET ix == IndicesFrom(e, 1) IN [j \in 1..Len(ix) |-> log[ix[j]]]

\* the rows root i has been handed: all rows seen, but for the last one when
\* an earlier root raised on it
Invoked(i) == \E e \in Entries : e.path = <<Step(NoKey, i)>>
Received(i) ==
    IF seen = <<>> \/ Invoked(i) THEN seen ELSE SubSeq(seen, 1, Len(seen) - 1)

Carries(r, f) == f \in DOMAIN r

RECURSIVE SumNumeric(_, _)
SumNumeric(recs, f) ==
    IF recs = <<>> THEN 0
    ELSE (IF Carries(Head(recs), f) /\ IsNumeric(Head(recs)[f])
          THEN Head(recs)[f].v ELSE 0) + SumNumeric(Tail(recs), f)

WithKey(recs, g, k) == SelectSeq(recs, LAMBDA r : Carries(r, g) /\ PyEq(r[g], k))

(***************************************************************************)
(* C1: a Grouper.run(record) whose group-field value is k changes only the *)
(* state held under key k, creating k's clone when it is absent: after the *)
(* call the template child list and the clone of every other key look as   *)
(* they did before it (the same totals, the same nested group maps), and   *)
(* no key but k is added or removed.                                       *)
(***************************************************************************)
C1_GrouperRunFrame ==
    \A e \in Entries :
        (e.before.kind = "Grouper" /\ Carries(e.data, e.before.group_by)) =>
            LET key == e.data[e.before.group_by]
            IN  /\ e.after.operators = e.before.operators
                /\ \A k \in DOMAIN e.before.groups :
                      ~PyEq(k, key) =>
                          /\ k \in DOMAIN e.after.groups
                          /\ e.after.groups[k] = e.before.groups[k]
                /\ \A k \in DOMAIN e.after.groups :
                      k \in DOMAIN e.before.groups \/ k = key
                /\ HasKey(e.after.groups, key)

\* a second key arrives at a Grouper whose first key has accumulated state,
\* and the new clone is updated by the row
C1_Witness ==
    \E e \in Entries :
        /\ e.before.kind = "Grouper"
        /\ Carries(e.data, e.before.group_by)
        /\ ~HasKey(e.before.groups, e.data[e.before.group_by])
        /\ \E k \in DOMAIN e.before.groups :
              e.before.groups[k] # e.before.operators
        /\ e.after.groups[e.data[e.before.group_by]] # e.after.operators

(***************************************************************************)
(* C2: for a root Grouper on field g with a Summer child on field f, after *)
(* any sequence of rows that all carry g, the group keys are the distinct  *)
(* g values seen so far (distinct as Python compares them, so True and 1   *)
(* are one key) and the Summer of key k holds the sum of the numeric f     *)
(* values of exactly the rows with g = k.                                  *)
(***************************************************************************)
C2_GroupTotals ==
    \A i \in 1..Len(operators) :
        LET g == heap[operators[i]]
            recs == Received(i)
        IN  (/\ g.kind = "Grouper"
             /\ \A j \in 1..Len(recs) : Carries(recs[j], g.group_by)) =>
                /\ \A j \in 1..Len(recs) : HasKey(g.groups, recs[j][g.group_by])
                /\ \A k \in DOMAIN g.groups :
                      \E j \in 1..Len(recs) : PyEq(recs[j][g.group_by], k)
                /\ \A k1, k2 \in DOMAIN g.groups : PyEq(k1, k2) => k1 = k2
                /\ \A k \in DOMAIN g.groups :
                      \A c \in 1..Len(g.groups[k]) :
                          LET s == heap[g.groups[k][c]]
                          IN  s.kind = "Summer" =>
                                s.total = SumNumeric(WithKey(recs, g.group_by, k),
                                                     s.var_name)

\* rows of two different keys, each with a numeric amount, have reached a root
\* Grouper
C2_Witness ==
    \E i \in 1..Len(operators) :
        LET g == heap[operators[i]]
        IN  /\ g.kind = "Grouper"
            /\ Len(Received(i)) = MaxRecords
            /\ \A j \in 1..Len(Received(i)) : Carries(Received(i)[j], g.group_by)
            /\ Cardinality(DOMAIN g.groups) >= 2
            /\ \A k \in DOMAIN g.groups :
                  \E c \in 1..Len(g.groups[k]) :
                      /\ heap[g.groups[k][c]].kind = "Summer"
                      /\ heap[g.groups[k][c]].total > 0

(***************************************************************************)
(* The result tree the specification describes: a Summer's result is its   *)
(* total, a Matcher's or Filter's maps each child's name to the child's    *)
(* result (a later child of the same name replaces the earlier one), a     *)
(* Grouper's maps each key to such a mapping of the key's clone.           *)
(***************************************************************************)
RECURSIVE ResultOf(_, _), ResultsOf(_, _, _)
ResultsOf(h, ids, i) ==
    IF i = 0 THEN EmptyDict
    ELSE (h[ids[i]].name :> ResultOf(h, ids[i])) @@ ResultsOf(h, ids, i - 1)
ResultOf(h, id) ==
    CASE h[id].kind = "Summer" -> h[id].total
      [] h[id].kind \in {"Matcher", "Filter"} ->
            ResultsOf(h, h[id].operators, Len(h[id].operators))
      [] h[id].kind = "Grouper" ->
            [k \in DOMAIN h[id].groups |->
                ResultsOf(h, h[id].groups[k], Len(h[id].groups[k]))]

(***************************************************************************)
(* C3: end to end, with the single root Matcher 'root' without conditions  *)
(* holding the Grouper 'group' on 'category' holding the Summer 'total' on *)
(* 'amount', after the rows (food,20), (rent,500), (food,5)                *)
(* Processor.output() returns                                              *)
(* {root: {group: {food: {total: 25}, rent: {total: 500}}}}.               *)
(***************************************************************************)
E2ERows ==
    << [category |-> PyStr("food"), amount |-> PyInt(20)],
       [category |-> PyStr("rent"), amount |-> PyInt(500)],
       [category |-> PyStr("food"), amount |-> PyInt(5)] >>

E2EExpected ==
    "root" :> ("group" :> ( (PyStr("food") :> ("total" :> 25))
                            @@ (PyStr("rent") :> ("total" :> 500)) ))

C3_EndToEnd ==
    (/\ out.call = "Processor.output"
     /\ pc = "done"
     /\ seen = E2ERows) =>
        /\ out.exc = None
        /\ out.val = E2EExpected

(***************************************************************************)
(* C10: output() of a Matcher or Filter returns (name, m), m mapping each  *)
(* child's name to that child's own result, whether or not a row has been  *)
(* forwarded.                                                              *)
(***************************************************************************)
C10_GateOutput ==
    (/\ out.call = "output"
     /\ pc = "done"
     /\ heap[out.id].kind \in {"Matcher", "Filter"}) =>
        /\ out.exc = None
        /\ out.val = <<heap[out.id].name, ResultOf(heap, out.id)>>

(***************************************************************************)
(* Conditions, as the specification reads them: a condition is met when    *)
(* the row carries the field with a value equal to the configured one; a   *)
(* missing field is a condition not met.                                   *)
(***************************************************************************)
Met(cond, data) == Carries(data, cond[1]) /\ PyEq(data[cond[1]], cond[2])
AllMet(matches, data) == \A i \in 1..Len(matches) : Met(matches[i], data)

\* the call forwarded the row: it called run on its children in child order
\* with the row it was given, each child once, and went on to the next child
\* whenever the call before returned; an exception leaving a child's run ends
\* the call and leaves it too
Forwarded(e) ==
    LET calls == ChildCalls(e)
        n == Len(e.before.operators)
    IN  /\ Len(calls) <= n
        /\ n > 0 => Len(calls) > 0
        /\ \A j \in 1..Len(calls) :
              /\ calls[j].path = Append(e.path, Step(NoKey, j))
              /\ calls[j].data = e.data
              /\ calls[j].before = e.before.operators[j]
              /\ calls[j].after = e.after.operators[j]
              /\ j < Len(calls) => calls[j].exc = None
        /\ Len(calls) < n => calls[Len(calls)].exc # None
        /\ \A j \in (Len(calls) + 1)..n : e.after.operators[j] = e.before.operators[j]
        /\ e.exc = IF calls = <<>> THEN None ELSE calls[Len(calls)].exc
        /\ ~e.origin

\* the call invoked no child and changed nothing
NotForwarded(e) == ChildCalls(e) = <<>> /\ e.after = e.before

(***************************************************************************)
(* C4: Matcher.run(record) calls run on every child, with the same record  *)
(* and in child order, exactly when every configured (field, value)        *)
(* condition equals the record's value for that field; when a condition    *)
(* fails it invokes no child and changes no state; with no conditions it   *)
(* forwards every record.  (As everywhere in Python, an exception leaving  *)
(* a child's run ends the loop over the children.)                         *)
(***************************************************************************)
C4_MatcherForwards ==
    \A e \in Entries :
        e.before.kind = "Matcher" =>
            IF AllMet(e.before.matches, e.data) THEN Forwarded(e)
            ELSE NotForwarded(e)

\* a Matcher with two conditions, both met, has run both of its children, and
\* its subtree has changed
C4_Witness ==
    \E e \in Entries :
        /\ e.before.kind = "Matcher"
        /\ Len(e.before.matches) >= 2
        /\ AllMet(e.before.matches, e.data)
        /\ Len(e.before.operators) >= 2
        /\ Len(ChildCalls(e)) = Len(e.before.operators)
        /\ e.after # e.before
        /\ e.exc = None

(***************************************************************************)
(* C5: Filter.run(record) forwards the record to all of its children       *)
(* exactly when at least one configured condition fails on the record, and *)
(* does nothing when all conditions match; with no conditions it never     *)
(* forwards.                                                               *)
(***************************************************************************)
C5_FilterForwards ==
    \A e \in Entries :
        e.before.kind = "Filter" =>
            IF AllMet(e.before.matches, e.data) THEN NotForwarded(e)
            ELSE Forwarded(e)

(***************************************************************************)
(* C6: after a Summer on field f has received any sequence of records that *)
(* each carry f, its total is the sum of the f values that are numeric (a  *)
(* Python bool is a number: True adds 1); a record whose f value is not    *)
(* numeric leaves the total unchanged and raises nothing, and later        *)
(* records are still added.                                                *)
(***************************************************************************)
C6_SummerTotal ==
    /\ \A i \in 1..Len(operators) :
          LET s == heap[operators[i]]
              recs == Received(i)
          IN  (/\ s.kind = "Summer"
               /\ \A j \in 1..Len(recs) : Carries(recs[j], s.var_name)) =>
                  s.total = SumNumeric(recs, s.var_name)
    /\ \A e \in Entries :
          (e.before.kind = "Summer" /\ Carries(e.data, e.before.var_name)) =>
              /\ e.exc = None
              /\ ~IsNumeric(e.data[e.before.var_name]) => e.after = e.before

\* a root Summer has been given a non-numeric value and then a number
C6_Witness ==
    \E i \in 1..Len(operators) :
        /\ heap[operators[i]].kind = "Summer"
        /\ Len(Received(i)) = MaxRecords
        /\ \A j \in 1..MaxRecords : Carries(Received(i)[j], "amount")
        /\ ~IsNumeric(Received(i)[MaxRecords - 1]["amount"])
        /\ IsNumeric(Received(i)[MaxRecords]["amount"])
        /\ heap[operators[i]].total > 0
        /\ pc = "running"

(***************************************************************************)
(* C7: when a condition of a Matcher or Filter names a field that is       *)
(* absent from the record, run does not raise: the condition counts as not *)
(* met, so the Matcher forwards nothing and the Filter forwards the record *)
(* to its children, and the pass continues.                                *)
(***************************************************************************)
C7_MissingConditionField ==
    \A e \in Entries :
        (/\ e.before.kind \in {"Matcher", "Filter"}
         /\ \E i \in 1..Len(e.before.matches) :
               ~Carries(e.data, e.before.matches[i][1])) =>
            /\ ~e.origin
            /\ e.before.kind = "Matcher" => NotForwarded(e)
            /\ e.before.kind = "Filter" => Forwarded(e)

(***************************************************************************)
(* C8: when the field of a Summer is absent from the record, Summer.run is *)
(* a no-op: the total is unchanged and no error reaches the caller, the    *)
(* pass continues.                                                         *)
(***************************************************************************)
C8_SummerMissingField ==
    \A e \in Entries :
        (e.before.kind = "Summer" /\ ~Carries(e.data, e.before.var_name)) =>
            /\ e.exc = None
            /\ e.after = e.before
            /\ pc = "running"

(***************************************************************************)
(* C9: when a record reaching a Grouper lacks the group field, Grouper.run *)
(* raises; the error leaves every run call above it and Processor.start,   *)
(* which ends there: no operator runs after the Grouper and no further row *)
(* is taken.  The record is not skipped silently and no group is created   *)
(* for it.                                                                 *)
(***************************************************************************)
C9_GrouperMissingField ==
    \A i \in 1..Len(log) :
        LET e == log[i]
        IN  (e.before.kind = "Grouper" /\ ~Carries(e.data, e.before.group_by)) =>
                /\ e.exc = "KeyError" /\ e.origin
                /\ e.after = e.before
                /\ i = Len(log)
                /\ \A j \in 1..i :
                      log[j].path = SubSeq(e.path, 1, Len(log[j].path)) =>
                          log[j].exc = "KeyError"
                /\ pc = "raised" /\ exc = "KeyError"
                /\ ~ENABLED (\E data \in Records : StartRow(data))

\* a Grouper below a Matcher, with a group from an earlier row, is handed a row
\* without the group field
C9_Witness ==
    \E e \in Entries :
        /\ e.before.kind = "Grouper"
        /\ ~Carries(e.data, e.before.group_by)
        /\ Len(e.path) >= 2
        /\ DOMAIN e.before.groups # {}
        /\ Len(seen) = MaxRecords

(***************************************************************************)
(* C11: Grouper.output() returns the pair (name, m) where m has one entry  *)
(* per group key seen so far and m[key] maps the name of each child of     *)
(* that key's clone to that child's current result.                        *)
(***************************************************************************)
C11_GrouperOutput ==
    (out.call = "output" /\ pc = "done" /\ heap[out.id].kind = "Grouper") =>
        /\ out.exc = None
        /\ out.val = <<heap[out.id].name, ResultOf(heap, out.id)>>

(***************************************************************************)
(* C12: output() on any operator and Processor.output() are read-only: in  *)
(* every reachable state, mid-stream included, the call leaves every       *)
(* object as it was (totals, group maps, child lists, conditions) and a    *)
(* second call right after it returns what the first returned; the call    *)
(* the program made last returned what a repeated call returns now.        *)
(***************************************************************************)
SameOutcome(r1, r2) == r1.exc = r2.exc /\ r1.val = r2.val

C12_OutputReadOnly ==
    /\ \A id \in 1..Len(heap) :
          LET r == Output(heap, id)
          IN  r.heap = heap /\ SameOutcome(Output(r.heap, id), r)
    /\ LET r == ProcessorOutput(heap, operators)
       IN  r.heap = heap /\ SameOutcome(ProcessorOutput(r.heap, operators), r)
    /\ out.call = "output" => SameOutcome(Output(heap, out.id), out)
    /\ out.call = "Processor.output" =>
          SameOutcome(ProcessorOutput(heap, operators), out)

\* Processor.output() returned with a root Summer that has added something
C12_Witness ==
    /\ out.call = "Processor.output" /\ out.exc = None
    /\ \E i \in 1..Len(operators) :
          /\ heap[operators[i]].kind = "Summer"
          /\ heap[operators[i]].total > 0

(***************************************************************************)
(* Processor.start() as a whole, over the rows recs[i..]: every row is run *)
(* on every root in root order; an exception leaves the loop.              *)
(***************************************************************************)
RECURSIVE Pass(_, _, _, _)
Pass(h, roots, recs, i) ==
    IF i > Len(recs) THEN [heap |-> h, exc |-> None]
    ELSE LET r == RunAll(h, roots, 1, recs[i], <<>>, NoKey)
         IN  IF r.exc # None THEN [heap |-> r.heap, exc |-> r.exc]
             ELSE Pass(r.heap, roots, recs, i + 1)

\* the orders of n roots
Perms(n) == {p \in [1..n -> 1..n] : \A i, j \in 1..n : p[i] = p[j] => i = j}

\* the pass over the rows seen, with the roots added in the order p
Reordered(p) ==
    LET b == Build([i \in 1..Len(config.operators) |-> config.operators[p[i]]])
        r == Pass(b.heap, b.operators, seen, 1)
    IN  [heap |-> r.heap, operators |-> b.operators, exc |-> r.exc]

\* every root holds the same result after the pass r made in the order p
SameResultsIn(r, p) ==
    \A i \in 1..Len(operators) :
        ResultOf(r.heap, r.operators[i]) = ResultOf(heap, operators[p[i]])

SameResults(p) == SameResultsIn(Reordered(p), p)

MaxColumns == 2
MainRows == 1

HeaderVals == {PyStr("category"), PyStr("amount"), PyInt(1)}
Headers == [1..MaxColumns -> HeaderVals]
CellVals == {PyStr("food"), PyInt(5)}
Cells == [1..MaxColumns -> CellVals]

\* cell.value in self.mapping.keys(): the keys are the column indices
InKeys(value, mapping) == \E column \in DOMAIN mapping : PyEq(value, PyInt(column))

\* __init__: for cell in row: ... self.mapping[cell.column] = cell.value
RECURSIVE MappingFrom(_, _, _)
MappingFrom(header, column, mapping) ==
    IF column > Len(header) THEN [exc |-> None, mapping |-> mapping]
    ELSE IF InKeys(header[column], mapping)
    THEN [exc |-> "ValueError", mapping |-> mapping]
    ELSE MappingFrom(header, column + 1, Append(mapping, header[column]))

OpenpyxlDataSource(header) == MappingFrom(header, 1, <<>>)

\* a dict key of a row: a field name; the header value 1 is written "1"
Key(value) == IF value.t = "str" THEN value.v ELSE "1"

\* __next__: for cell in row: row_content[self.mapping[cell.column]] = cell.value
RECURSIVE RowContent(_, _, _)
RowContent(mapping, cells, column) ==
    IF column = 0 THEN <<>>
    ELSE LET before == RowContent(mapping, cells, column - 1)
             key == Key(mapping[column])
         IN  [k \in DOMAIN before \cup {key} |->
                 IF k = key THEN cells[column] ELSE before[k]]

(***************************************************************************)
(* __main__.main, one action per statement from json.load on.  The file    *)
(* args.config is what json.load makes of it: a dict, or nothing when the  *)
(* text is not JSON.                                                       *)
(***************************************************************************)
NotJSON == [json |-> "invalid"]

PairCfg == <<RootCfg, TotalCfg>>
CounterCfg == <<"odd", Leaf("Counter", "amount")>>
NoArgsCfg == <<"bare", [type |-> "Summer"]>>
LeafChildCfg == <<"leaf", Node("Summer", "amount", <<TotalCfg>>)>>
HalfCfg == <<"half", Node("Matcher", << <<"category">> >>, <<TotalCfg>>)>>

MainFiles ==
    { NotJSON,
      ConfigFile(1, PairCfg),
      ConfigFile(1, <<TotalCfg>>),
      ConfigFile(2, PairCfg),
      [header_row |-> 1, operators |-> PairCfg],
      [config_version |-> 1, operators |-> PairCfg],
      [config_version |-> 1, header_row |-> 1],
      ConfigFile(1, <<TotalCfg, CounterCfg>>),
      ConfigFile(1, <<TotalCfg, NoArgsCfg>>),
      ConfigFile(1, <<TotalCfg, LeafChildCfg>>),
      ConfigFile(1, <<TotalCfg, HalfCfg>>) }

InitMain ==
    /\ config \in MainFiles
    /\ source \in {[header |-> header, mapping |-> <<>>] : header \in Headers}
    /\ heap = <<>>
    /\ operators = <<>>
    /\ seen = <<>>
    /\ pc = "load"
    /\ exc = None
    /\ log = <<>>
    /\ out = NoCall

\* a statement of main raises: main ends there
MainRaise(e) ==
    /\ pc' = "raised"
    /\ exc' = e
    /\ UNCHANGED <<config, source, heap, operators, seen, log, out>>

MainGoto(next) ==
    /\ pc' = next
    /\ UNCHANGED <<config, source, heap, operators, seen, exc, log, out>>

\* config = json.load(open(args.config))
MainLoad ==
    /\ pc = "load"
    /\ IF config = NotJSON THEN MainRaise("JSONDecodeError") ELSE MainGoto("version")

\* if config["config_version"] != 1: raise ValueError(...)
MainVersion ==
    /\ pc = "version"
    /\ IF "config_version" \notin DOMAIN config THEN MainRaise("KeyError")
       ELSE IF config.config_version # 1 THEN MainRaise("ValueError")
       ELSE MainGoto("source")

\* data_source = OpenpyxlDataSource(args.source_wb, header_row=config["header_row"])
MainSource ==
    /\ pc = "source"
    /\ IF "header_row" \notin DOMAIN config THEN MainRaise("KeyError")
       ELSE LET r == OpenpyxlDataSource(source.header)
            IN  IF r.exc # None THEN MainRaise(r.exc)
                ELSE /\ source' = [source EXCEPT !.mapping = r.mapping]
                     /\ pc' = "build"
                     /\ UNCHANGED <<config, heap, operators, seen, exc, log, out>>

\* proc = Processor(data_source); for name, operator in config["operators"].items(): ...
MainBuild ==
    /\ pc = "build"
    /\ IF "operators" \notin DOMAIN config THEN MainRaise("KeyError")
       ELSE LET b == Build(config.operators)
            IN  IF b.exc # None THEN MainRaise(b.exc)
                ELSE /\ heap' = b.heap
                     /\ operators' = b.operators
                     /\ pc' = "running"
                     /\ UNCHANGED <<config, source, seen, exc, log, out>>

\* proc.start(): the data source hands over the next row of the sheet
MainStartRow(cells) ==
    StartRowUpTo(RowContent(source.mapping, cells, Len(source.mapping)), MainRows)

\* print(proc.operators[1].output())
MainPrint ==
    /\ pc = "done"
    /\ IF Len(operators) < 2 THEN MainRaise("IndexError")
       ELSE LET r == Output(heap, operators[2])
            IN  /\ out' = [call |-> "output", id |-> operators[2],
                           exc |-> r.exc, val |-> r.val]
                /\ heap' = r.heap
                /\ exc' = r.exc
                /\ pc' = IF r.exc = None THEN "printed" ELSE "raised"
                /\ UNCHANGED <<config, source, operators, seen, log>>

NextMain ==
    \/ MainLoad
    \/ MainVersion
    \/ MainSource
    \/ MainBuild
    \/ \E cells \in Cells : MainStartRow(cells)
    \/ StartReturn
    \/ MainPrint

SpecMain == InitMain /\ [][NextMain]_vars

\* the operators a description holds
ChildrenOf(operator) ==
    IF "operators" \in DOMAIN operator THEN operator.operators ELSE <<>>

\* a description without type or args, a Summer given children, or a
\* Matcher/Filter condition that is not a (field, value) pair, at any depth
RECURSIVE IllFormed(_)
IllFormed(operator) ==
    \/ "type" \notin DOMAIN operator
    \/ "args" \notin DOMAIN operator
    \/ operator.type = "Summer" /\ ChildrenOf(operator) # <<>>
    \/ /\ operator.type \in {"Matcher", "Filter"}
       /\ \E i \in 1..Len(operator.args) : Len(operator.args[i]) # 2
    \/ \E i \in 1..Len(ChildrenOf(operator)) : IllFormed(ChildrenOf(operator)[i][2])

\* a description of a kind the processor module does not define, at any depth
RECURSIVE UnknownKind(_)
UnknownKind(operator) ==
    \/ "type" \in DOMAIN operator /\ operator.type \notin Kinds
    \/ \E i \in 1..Len(ChildrenOf(operator)) : UnknownKind(ChildrenOf(operator)[i][2])

Malformed(file) ==
    \/ file = NotJSON
    \/ ~({"config_version", "header_row", "operators"} \subseteq DOMAIN file)
    \/ \E i \in 1..Len(file.operators) : IllFormed(file.operators[i][2])

WrongVersion(file) == "config_version" \in DOMAIN file /\ file.config_version # 1

NamesUnknownKind(file) ==
    /\ "operators" \in DOMAIN file
    /\ \E i \in 1..Len(file.operators) : UnknownKind(file.operators[i][2])

(***************************************************************************)
(* C14: in main, a configuration that is malformed, has a config_version   *)
(* other than 1, or names an unknown operator kind makes main fail before  *)
(* Processor.start is called: no record is handed to any operator before   *)
(* the failure.  It is stated here for the sheets whose rows carry both    *)
(* fields the operators read.                                              *)
(***************************************************************************)
C14_BadConfigFailsEarly ==
    (/\ Malformed(config) \/ WrongVersion(config) \/ NamesUnknownKind(config)
     /\ \A i \in 1..Len(seen) : Fields \subseteq DOMAIN seen[i]) =>
        seen = <<>> /\ log = <<>>

\* two columns of the header row carry the same name
Duplicate(header) ==
    \E i, j \in 1..Len(header) : i < j /\ header[i] = header[j]

\* main has constructed the data source and gone on
Constructed == pc \in {"build", "running", "done", "printed"} \/ heap # <<>>

(***************************************************************************)
(* C15: constructing the data source over a header row in which two        *)
(* columns carry the same name fails at construction, before any record is *)
(* produced; a header row with pairwise distinct names is accepted and     *)
(* maps each column to its name.                                           *)
(***************************************************************************)
C15_HeaderNames ==
    /\ Duplicate(source.header) =>
          ~Constructed /\ source.mapping = <<>> /\ seen = <<>>
    /\ (~Duplicate(source.header) /\ Constructed) =>
          source.mapping = source.header

\* an operator (as View gives it) in its initial state: every Summer in it has
\* total 0 and every Grouper in it has no group
RECURSIVE Fresh(_)
Fresh(v) ==
    CASE v.kind = "Summer" -> v.total = 0
      [] v.kind = "Grouper" ->
            /\ DOMAIN v.groups = {}
            /\ \A i \in 1..Len(v.operators) : Fresh(v.operators[i])
      [] OTHER -> \A i \in 1..Len(v.operators) : Fresh(v.operators[i])

\* the Grouper call e meets a key it has no group for
NewKey(e) ==
    /\ e.before.kind = "Grouper"
    /\ Carries(e.data, e.before.group_by)
    /\ ~HasKey(e.before.groups, e.data[e.before.group_by])

(***************************************************************************)
(* C16: in every reachable state the template children of every Grouper,   *)
(* at any depth (root, below a Matcher, inside a clone), are in their      *)
(* initial state: every template Summer has total 0 and every template     *)
(* Grouper has no group.  So the clone made when a key is first seen,      *)
(* however late, has zero totals and empty nested group maps when the      *)
(* triggering record is handed to it.                                      *)
(***************************************************************************)
C16_TemplateFresh ==
    /\ \A id \in 1..Len(heap) :
          heap[id].kind = "Grouper" =>
              \A i \in 1..Len(heap[id].operators) :
                  Fresh(View(heap, heap[id].operators[i]))
    /\ \A e \in Entries :
          NewKey(e) =>
              /\ Len(ChildCalls(e)) = Len(e.before.operators) \/ e.exc # None
              /\ \A j \in 1..Len(ChildCalls(e)) : Fresh(ChildCalls(e)[j].before)

\* late in the stream a Grouper that already holds a group with a total meets a
\* new key, and its clone holds a nested Grouper
C16_Witness ==
    /\ Len(seen) = MaxRecords
    /\ \E e \in Entries :
          /\ NewKey(e)
          /\ \E k \in DOMAIN e.before.groups :
                \E i \in 1..Len(e.before.groups[k]) : ~Fresh(e.before.groups[k][i])
          /\ \E j \in 1..Len(ChildCalls(e)) :
                /\ ChildCalls(e)[j].before.kind = "Grouper"
                /\ DOMAIN ChildCalls(e)[j].after.groups # {}

\* the objects an operator holds, itself included: its template children and
\* the clones of its groups, at any depth
RECURSIVE Reach(_, _)
ReachAll(h, ids) == UNION {Reach(h, ids[i]) : i \in 1..Len(ids)}
Reach(h, id) ==
    {id} \cup
    CASE h[id].kind = "Summer" -> {}
      [] h[id].kind = "Grouper" ->
            ReachAll(h, h[id].operators) \cup
            UNION {ReachAll(h, h[id].groups[k]) : k \in DOMAIN h[id].groups}
      [] OTHER -> ReachAll(h, h[id].operators)

\* the nested Groupers among the direct children of a clone (as View gives it)
InnerGroupers(clone) ==
    {clone[i] : i \in {j \in 1..Len(clone) : clone[j].kind = "Grouper"}}

(***************************************************************************)
(* C17: with a Grouper nested in another Grouper's children, the inner     *)
(* Groupers of two different outer keys share nothing: the template and    *)
(* the clones of different keys of any Grouper have no object in common,   *)
(* at any depth; and a record with outer key a and inner key x is handed   *)
(* to the inner Grouper of a's clone only, which creates or updates its    *)
(* group x, while the inner group maps and totals under every other outer  *)
(* key stay as they were.                                                  *)
(***************************************************************************)
C17_NestedIsolation ==
    /\ \A id \in 1..Len(heap) :
          heap[id].kind = "Grouper" =>
              /\ \A k \in DOMAIN heap[id].groups :
                    ReachAll(heap, heap[id].groups[k]) \cap
                        ReachAll(heap, heap[id].operators) = {}
              /\ \A k1, k2 \in DOMAIN heap[id].groups :
                    k1 # k2 =>
                        ReachAll(heap, heap[id].groups[k1]) \cap
                            ReachAll(heap, heap[id].groups[k2]) = {}
    /\ \A e \in Entries :
          (e.before.kind = "Grouper" /\ Carries(e.data, e.before.group_by)) =>
              LET a == KeyOf(e.after.groups, e.data[e.before.group_by])
              IN  /\ \A j \in 1..Len(ChildCalls(e)) :
                        LET c == ChildCalls(e)[j]
                        IN  /\ c.id \in ReachAll(heap, heap[e.id].groups[a])
                            /\ (c.before.kind = "Grouper" /\ c.exc = None) =>
                                  HasKey(c.after.groups, c.data[c.before.group_by])
                  /\ \A b \in DOMAIN e.before.groups :
                        b # a =>
                            InnerGroupers(e.after.groups[b]) =
                                InnerGroupers(e.before.groups[b])

\* the second row brings a new outer key with an inner key that another outer
\* key already holds a total for
C17_Witness ==
    \E e \in Entries :
        /\ NewKey(e)
        /\ \E j \in 1..Len(ChildCalls(e)) :
              LET c == ChildCalls(e)[j]
              IN  /\ NewKey(c) /\ c.exc = None
                  /\ \E b \in DOMAIN e.before.groups :
                        \E g \in InnerGroupers(e.before.groups[b]) :
                            /\ HasKey(g.groups, c.data[c.before.group_by])
                            /\ \E k \in DOMAIN g.groups :
                                  \E i \in 1..Len(g.groups[k]) : ~Fresh(g.groups[k][i])
                  /\ \E k \in DOMAIN c.after.groups :
                        \E i \in 1..Len(c.after.groups[k]) : ~Fresh(c.after.groups[k][i])

\* the configuration of an operator (as View gives it): all of it but the
\* Summer totals and the Grouper group maps
RECURSIVE Shape(_)
ShapeList(vs) == [i \in 1..Len(vs) |-> Shape(vs[i])]
Shape(v) ==
    CASE v.kind = "Summer" ->
            [kind |-> v.kind, name |-> v.name, var_name |-> v.var_name]
      [] v.kind = "Grouper" ->
            [kind |-> v.kind, name |-> v.name, group_by |-> v.group_by,
             operators |-> ShapeList(v.operators)]
      [] OTHER ->
            [kind |-> v.kind, name |-> v.name, matches |-> v.matches,
             operators |-> ShapeList(v.operators)]

(***************************************************************************)
(* C18: no run call changes the tree's configuration or the record: for    *)
(* every call, on any operator, the operator's name, child list, condition *)
(* list, group field and sum field (and those of everything below it) are  *)
(* the same after the call as before, every operator is handed the record  *)
(* as the data source produced it, and the root list and the roots'        *)
(* configuration stay as built; only Summer totals and Grouper group maps  *)
(* change, a group being a copy of the template's configuration.           *)
(***************************************************************************)
C18_RunFrame ==
    /\ \A e \in Entries :
          /\ Shape(e.after) = Shape(e.before)
          /\ e.data = seen[Len(seen)]
          /\ e.before.kind = "Grouper" =>
                \A k \in DOMAIN e.after.groups :
                    ShapeList(e.after.groups[k]) = ShapeList(e.before.operators)
    /\ LET b == Build(config.operators)
       IN  /\ operators = b.operators
           /\ \A i \in 1..Len(operators) :
                 Shape(View(heap, operators[i])) = Shape(View(b.heap, operators[i]))

\* a row changed a total below a Filter with a condition, and a Grouper
\* holding a group got a second one
C18_Witness ==
    /\ \E e \in Entries :
          /\ e.before.kind = "Filter" /\ e.before.matches # <<>>
          /\ \E j \in 1..Len(ChildCalls(e)) :
                /\ ChildCalls(e)[j].before.kind = "Summer"
                /\ ChildCalls(e)[j].after # ChildCalls(e)[j].before
    /\ \E e \in Entries : NewKey(e) /\ DOMAIN e.before.groups # {}

(***************************************************************************)
(* Trees with two siblings of one name.  A JSON object cannot hold them,   *)
(* so they are built through the classes' add_operator methods, which      *)
(* check nothing.                                                          *)
(***************************************************************************)
NoFile == [json |-> "unused"]

CountCfg == <<"total", Leaf("Summer", "category")>>
EmptyCfg == <<"total", Leaf("Matcher", <<>>)>>
TwinsCfg == <<"twins", Node("Matcher", <<>>, <<TotalCfg, CountCfg>>)>>
GroupTwinsCfg == <<"group", Node("Grouper", "category", <<TotalCfg, CountCfg>>)>>

DupConfigs ==
    { <<TotalCfg, CountCfg>>, <<OtherCfg, CountCfg, TotalCfg>>,
      <<TotalCfg, EmptyCfg>>, <<TwinsCfg>>, <<GroupTwinsCfg>> }

InitDup ==
    \E items \in DupConfigs :
        LET b == Build(items)
        IN  /\ config = NoFile
            /\ source = AnyIterator
            /\ heap = b.heap
            /\ operators = b.operators
            /\ seen = <<>>
            /\ pc = "running"
            /\ exc = None
            /\ log = <<>>
            /\ out = NoCall

SpecDup == InitDup /\ [][Next]_vars

\* the names of the operators ids, and the last of them with a given name
NamesOf(h, ids) == {h[ids[i]].name : i \in 1..Len(ids)}
LastNamed(h, ids, name) ==
    ids[CHOOSE i \in 1..Len(ids) :
            /\ h[ids[i]].name = name
            /\ \A j \in (i + 1)..Len(ids) : h[ids[j]].name # name]
HasTwins(h, ids) == Cardinality(NamesOf(h, ids)) < Len(ids)

\* the mapping from name to result for a sibling list, a later sibling replacing an earlier one of the same name
Collected(h, ids) ==
    [name \in NamesOf(h, ids) |-> ResultOf(h, LastNamed(h, ids, name))]

(***************************************************************************)
(* C19: when two operators of one sibling list (two roots, two children of *)
(* a Matcher or Filter) have the same name, collecting the results into    *)
(* the mapping raises no error and keeps one entry per name, the entry of  *)
(* a repeated name holding the result of the later sibling and the other   *)
(* entries being those of their operators.                                 *)
(***************************************************************************)
C19_LaterSiblingWins ==
    /\ (out.call = "Processor.output" /\ pc = "done" /\ HasTwins(heap, operators)) =>
          out.exc = None /\ out.val = Collected(heap, operators)
    /\ (/\ out.call = "output" /\ pc = "done"
        /\ heap[out.id].kind \in {"Matcher", "Filter"}
        /\ HasTwins(heap, heap[out.id].operators)) =>
          /\ out.exc = None
          /\ out.val = <<heap[out.id].name, Collected(heap, heap[out.id].operators)>>

\* the calls made on the roots for the last row, in the order they were made
RootCalls == SelectSeq(log, LAMBDA e : Len(e.path) = 1)

(***************************************************************************)
(* C20: Processor.start applies the rows one at a time in stream order,    *)
(* visiting the roots in root order for each row, and has no rollback.     *)
(* When an operator raises on row i the pass stops there: no later row is  *)
(* applied to any operator, every call completed before the failure keeps  *)
(* its update from row i, and every operator not visited for row i is as   *)
(* the rows before i left it.                                              *)
(***************************************************************************)
C20_NoRollback ==
    [][seen' # seen =>
        /\ pc = "running" /\ exc = None
        /\ seen' = Append(seen, seen'[Len(seen')])
        /\ LET calls == SelectSeq(log', LAMBDA e : Len(e.path) = 1)
           IN  /\ \A i \in 1..Len(calls) :
                     /\ calls[i].path = <<Step(NoKey, i)>>
                     /\ calls[i].id = operators[i]
                     /\ calls[i].exc # None => i = Len(calls)
               /\ exc' = None => Len(calls) = Len(operators)
               /\ exc' # None =>
                     /\ pc' = "raised"
                     /\ Len(calls) >= 1 /\ calls[Len(calls)].exc = exc'
        /\ \A i \in 1..Len(log') :
              log'[i].exc = None => View(heap', log'[i].id) = log'[i].after
        /\ \A id \in 1..Len(heap) :
              (\A i \in 1..Len(log') : log'[i].id # id) => heap'[id] = heap[id]
    ]_vars

\* the second row raised at the second of three roots: the first root has
\* added it, the third was not visited and holds the first row
C20_Witness ==
    /\ pc = "raised" /\ Len(operators) = 3 /\ Len(seen) = MaxRecords
    /\ Len(RootCalls) = 2
    /\ RootCalls[1].exc = None /\ RootCalls[1].after # RootCalls[1].before
    /\ RootCalls[2].before.kind = "Grouper" /\ RootCalls[2].origin
    /\ heap[operators[3]].total > 0

====
